---- MODULE Spec2Model ----
(***************************************************************************)
(* Model of schools.py: a click command line tool over a CSV store of      *)
(* schools (id, name, abbreviations, alternatives) with the commands       *)
(* for-database, add, search initialize and search seed.                   *)
(*                                                                         *)
(* A string is a sequence of one-character strings, so that quoting,      *)
(* replacing and parsing act on characters as the code's library calls do. *)
(***************************************************************************)
EXTENDS Integers, Sequences, FiniteSets, TLC

VARIABLES
    values,     \* codec: the list of strings handed to quote()
    field,      \* codec: the stored field text
    decoded,    \* codec: the result of seed's transform on field
    files,      \* the file system: path -> [exists, lines]
    stdout,     \* what the running command has written to standard output
    cmd,        \* the command line of the running (or just finished) invocation
    pc,         \* where that invocation is
    status,     \* how it ended
    requests,   \* the calls it has made to the search service
    task        \* the service's task for the last call

vars == <<values, field, decoded, files, stdout, cmd, pc, status, requests, task>>
codecVars == <<values, field, decoded>>
cliVars == <<files, stdout, cmd, pc, status, requests, task>>

(***************************************************************************)
(* Bounds                                                                  *)
(***************************************************************************)
MaxLen == 1     \* longest value drawn for the codec
MaxList == 2    \* longest list of values drawn for the codec
MaxRows == 3    \* add is not invoked on a store that already has this many rows

\* Characters the codec's values are drawn from: a letter, the two brace
\* delimiters, the JSON escape character, and the two characters the
\* encoding itself uses.
Alphabet == {"a", "{", "}", "\\", "\"", ","}

StringsUpTo(n) == UNION {[1..k -> Alphabet] : k \in 0..n}
ListsUpTo(m, n) == UNION {[1..k -> StringsUpTo(n)] : k \in 0..m}

(***************************************************************************)
(* add.quote: "{" + ",".join(f'"{value}"' for value in values) + "}"       *)
(***************************************************************************)
RECURSIVE Join(_, _)
Join(sep, parts) ==
    IF parts = <<>> THEN <<>>
    ELSE IF Len(parts) = 1 THEN parts[1]
    ELSE parts[1] \o sep \o Join(sep, Tail(parts))

FString(value) == <<"\"">> \o value \o <<"\"">>

quoteNoComma(vs) ==
    <<"{">> \o Join(<<>>, [i \in 1..Len(vs) |-> FString(vs[i])]) \o <<"}">>

quote(vs) ==
    <<"{">> \o Join(<<",">>, [i \in 1..Len(vs) |-> FString(vs[i])]) \o <<"}">>

(***************************************************************************)
(* polars str.replace(pattern, value): the pattern is a regular expression *)
(* and only its FIRST match is replaced (replace_all is the other method). *)
(* Both patterns of seed, \{ and \}, match one literal character.          *)
(***************************************************************************)
RECURSIVE FirstIndex(_, _, _)
FirstIndex(s, c, i) ==
    IF i > Len(s) THEN 0
    ELSE IF s[i] = c THEN i
    ELSE FirstIndex(s, c, i + 1)

StrReplace(s, c, r) ==
    LET k == FirstIndex(s, c, 1)
    IN  [i \in 1..Len(s) |-> IF i = k THEN r ELSE s[i]]

(***************************************************************************)
(* polars str.json_decode(dtype=List(str)): parse the text as one JSON     *)
(* value, an array whose elements are strings.  Whitespace may separate    *)
(* the tokens.  Inside a string a backslash starts an escape; of the       *)
(* escapes JSON defines, \" \\ and \/ stand for the character itself.      *)
(* Anything else is an error, which polars raises as ComputeError.         *)
(***************************************************************************)
DecodeError == [ok |-> FALSE, val |-> <<>>]
Decoded(list) == [ok |-> TRUE, val |-> list]

SelfEscapes == {"\"", "\\", "/"}

RECURSIVE SkipWs(_, _)
SkipWs(t, i) == IF i <= Len(t) /\ t[i] = " " THEN SkipWs(t, i + 1) ELSE i

\* The body of a string, from position i (just after the opening quote):
\* [ok, val, next] with next the position after the closing quote.
RECURSIVE JsonString(_, _, _)
JsonString(t, i, acc) ==
    IF i > Len(t) THEN [ok |-> FALSE, val |-> <<>>, next |-> i]
    ELSE IF t[i] = "\"" THEN [ok |-> TRUE, val |-> acc, next |-> i + 1]
    ELSE IF t[i] = "\\" THEN
        IF i + 1 <= Len(t) /\ t[i + 1] \in SelfEscapes
        THEN JsonString(t, i + 2, Append(acc, t[i + 1]))
        ELSE [ok |-> FALSE, val |-> <<>>, next |-> i]
    ELSE JsonString(t, i + 1, Append(acc, t[i]))

\* The elements of a non-empty array, the next one starting at position i.
RECURSIVE JsonElements(_, _, _)
JsonElements(t, i, acc) ==
    LET j == SkipWs(t, i)
    IN  IF j > Len(t) \/ t[j] # "\"" THEN DecodeError
        ELSE LET s == JsonString(t, j + 1, <<>>)
                 k == SkipWs(t, s.next)
             IN  IF ~s.ok \/ k > Len(t) THEN DecodeError
                 ELSE IF t[k] = "," THEN JsonElements(t, k + 1, Append(acc, s.val))
                 ELSE IF t[k] = "]" /\ SkipWs(t, k + 1) > Len(t)
                      THEN Decoded(Append(acc, s.val))
                 ELSE DecodeError

JsonDecode(t) ==
    LET i == SkipWs(t, 1)
    IN  IF i > Len(t) \/ t[i] # "[" THEN DecodeError
        ELSE LET j == SkipWs(t, i + 1)
             IN  IF j <= Len(t) /\ t[j] = "]"
                 THEN IF SkipWs(t, j + 1) > Len(t) THEN Decoded(<<>>) ELSE DecodeError
                 ELSE JsonElements(t, j, <<>>)

\* seed's transform of one list column.
DecodeField(f) == JsonDecode(StrReplace(StrReplace(f, "{", "["), "}", "]"))


NoField == [from |-> "none", text |-> <<>>]
NotDecoded == [done |-> FALSE, ok |-> FALSE, val |-> <<>>]

(***************************************************************************)
(* The file system and the CSV text of a frame                             *)
(***************************************************************************)
Paths == {"schools.csv", "other.csv"}
NotGiven == ""                      \* an option left off the command line
DefaultSource == "schools.csv"      \* --source default
DefaultOutput == "schools.csv"      \* add --output default
Stdout == "-"                       \* click.Path(allow_dash=True)

ColId == <<"i", "d">>
ColName == <<"n", "a", "m", "e">>
ColAbbreviations == <<"a", "b", "b", "r", "e", "v", "i", "a", "t", "i", "o", "n", "s">>
ColAlternatives == <<"a", "l", "t", "e", "r", "n", "a", "t", "i", "v", "e", "s">>
StoreColumns == <<ColId, ColName, ColAbbreviations, ColAlternatives>>

\* quote_style="always": every field between double quotes, a double quote
\* inside the field doubled.
CsvFieldBare(v) == v

CsvField(v) ==
    <<"\"">>
    \o Join(<<>>, [i \in 1..Len(v) |-> IF v[i] = "\"" THEN <<"\"", "\"">> ELSE <<v[i]>>])
    \o <<"\"">>

CsvLine(fields) == Join(<<",">>, [i \in 1..Len(fields) |-> CsvField(fields[i])])

\* DataFrame.write_csv: the header line, then one line per row.
DataFrameWriteCsv(df) ==
    <<CsvLine(df.columns)>> \o [i \in 1..Len(df.rows) |-> CsvLine(df.rows[i])]

\* The CSV reader on one line.  A field that starts with a double quote runs
\* to the closing quote, a doubled quote standing for one; any other field
\* runs to the next comma.
RECURSIVE QuotedField(_, _, _)
QuotedField(t, i, acc) ==
    IF i > Len(t) THEN [val |-> acc, next |-> i]
    ELSE IF t[i] = "\"" THEN
        IF i + 1 <= Len(t) /\ t[i + 1] = "\""
        THEN QuotedField(t, i + 2, Append(acc, "\""))
        ELSE [val |-> acc, next |-> i + 1]
    ELSE QuotedField(t, i + 1, Append(acc, t[i]))

RECURSIVE BareField(_, _, _)
BareField(t, i, acc) ==
    IF i > Len(t) \/ t[i] = "," THEN [val |-> acc, next |-> i]
    ELSE BareField(t, i + 1, Append(acc, t[i]))

RECURSIVE CsvFields(_, _, _)
CsvFields(t, i, acc) ==
    LET f == IF i <= Len(t) /\ t[i] = "\""
             THEN QuotedField(t, i + 1, <<>>)
             ELSE BareField(t, i, <<>>)
    IN  IF f.next > Len(t) THEN Append(acc, f.val)
        ELSE CsvFields(t, f.next + 1, Append(acc, f.val))

ParseCsvLine(t) == CsvFields(t, 1, <<>>)

\* pl.scan_csv(source) ... .collect(): the header gives the columns.
ScanCsv(lines) ==
    [columns |-> ParseCsvLine(lines[1]),
     rows |-> [i \in 1..(Len(lines) - 1) |-> ParseCsvLine(lines[i + 1])]]

ColumnIndex(df, col) == CHOOSE k \in 1..Len(df.columns) : df.columns[k] = col
HasColumns(df, cols) ==
    \A j \in 1..Len(cols) : \E k \in 1..Len(df.columns) : df.columns[k] = cols[j]

\* LazyFrame.select(*cols)
Select(df, cols) ==
    [columns |-> cols,
     rows |-> [i \in 1..Len(df.rows) |->
                 [j \in 1..Len(cols) |-> df.rows[i][ColumnIndex(df, cols[j])]]]]

Column(df, col) == [i \in 1..Len(df.rows) |-> df.rows[i][ColumnIndex(df, col)]]

File(lines) == [exists |-> TRUE, lines |-> lines]
NoFile == [exists |-> FALSE, lines |-> <<>>]

\* write_csv(df, path)
WriteCsv(df, path) ==
    IF path = Stdout
    THEN /\ stdout' = DataFrameWriteCsv(df)
         /\ files' = files
    ELSE /\ files' = [files EXCEPT ![path] = File(DataFrameWriteCsv(df))]
         /\ stdout' = stdout


(***************************************************************************)
(* The commands                                                            *)
(***************************************************************************)
NoCmd ==
    [name |-> "none", source |-> NotGiven, output |-> NotGiven, school |-> <<>>,
     abbreviations |-> <<>>, alternatives |-> <<>>, id |-> <<>>]

CommandLine(name, source, output) ==
    [NoCmd EXCEPT !.name = name, !.source = source, !.output = output]

\* schools --source: default "schools.csv"
SourceOf(c) == IF c.source = NotGiven THEN DefaultSource ELSE c.source

\* add --output: default "schools.csv"
AddOutputIsSource(c) == IF c.output = NotGiven THEN SourceOf(c) ELSE c.output

AddOutput(c) == IF c.output = NotGiven THEN DefaultOutput ELSE c.output

\* Values uuid4() may return.
Uuids == {<<"1">>, <<"2">>}

\* Command lines of add: a name, -a values, -l values.
AddArguments ==
    { [school |-> <<>>, abbreviations |-> <<>>, alternatives |-> <<>>],
      [school |-> <<"a">>, abbreviations |-> << <<"}">> >>, alternatives |-> << <<"a">> >>] }

SourceOptions == {NotGiven, "other.csv"}
OutputOptions == {NotGiven, Stdout, "other.csv"}
OutputArguments == {Stdout, "schools.csv", "other.csv"}

AcmeRow ==
    << <<"1">>, <<"A", "c", "m", "e", " ", "S", "c", "h", "o", "o", "l">>,
       <<"{", "\"", "A", "S", "\"", "}">>, <<"{", "}">> >>

Frame(rows) == [columns |-> StoreColumns, rows |-> rows]

InitCli ==
    /\ files = [p \in Paths |->
                  IF p = "schools.csv" THEN File(DataFrameWriteCsv(Frame(<<AcmeRow>>)))
                  ELSE NoFile]
    /\ stdout = <<>>
    /\ cmd = NoCmd
    /\ pc = "idle"
    /\ status = "none"
    /\ requests = <<>>
    /\ task = "none"

\* click.Path(exists=True) on --source: the group fails before any command runs.
UsageError(c) ==
    /\ ~files[SourceOf(c)].exists
    /\ cmd' = c
    /\ pc' = "exited"
    /\ status' = "UsageError"
    /\ UNCHANGED <<files, stdout, requests, task>>

\* schools: ctx.obj = pl.scan_csv(source), collected by the command.
Obj(source) ==
    IF files[source].exists THEN ScanCsv(files[source].lines)
    ELSE [columns |-> <<>>, rows |-> <<>>]

\* for_database(obj, output)
ForDatabaseRun(c, obj) ==
    /\ files[SourceOf(c)].exists
    /\ cmd' = c
    /\ pc' = "exited"
    /\ status' = "ok"
    /\ WriteCsv(Select(obj, <<ColId, ColName>>), c.output)
    /\ UNCHANGED <<requests, task>>

ForDatabase ==
    /\ pc = "idle"
    /\ \E source \in SourceOptions :
       \E obj \in {Obj(SourceOf(CommandLine("for_database", source, NotGiven)))} :
       \E output \in OutputArguments :
         LET c == CommandLine("for_database", source, output)
         IN  UsageError(c) \/ ForDatabaseRun(c, obj)
    /\ UNCHANGED codecVars

\* The row add builds.
NewRow(c) == <<c.id, c.school, quote(c.abbreviations), quote(c.alternatives)>>

\* DataFrame.extend(other): the schemas must be the same.
ExtendPrepends(df, row) == [df EXCEPT !.rows = <<row>> \o df.rows]

Extend(df, row) == [df EXCEPT !.rows = Append(df.rows, row)]

\* add(obj, name, abbreviations, alternatives, output)
AddRun(c, obj) ==
    /\ files[SourceOf(c)].exists
    /\ Len(obj.rows) < MaxRows
    /\ cmd' = c
    /\ pc' = "exited"
    /\ IF obj.columns = StoreColumns
       THEN /\ status' = "ok"
            /\ WriteCsv(Extend(obj, NewRow(c)), AddOutput(c))
       ELSE /\ status' = "ShapeError"
            /\ UNCHANGED <<files, stdout>>
    /\ UNCHANGED <<requests, task>>

Add ==
    /\ pc = "idle"
    /\ \E source \in SourceOptions :
       \E obj \in {Obj(SourceOf(CommandLine("add", source, NotGiven)))} :
       \E output \in OutputOptions, a \in AddArguments, id \in Uuids :
         LET c == [CommandLine("add", source, output) EXCEPT
                     !.school = a.school, !.abbreviations = a.abbreviations,
                     !.alternatives = a.alternatives, !.id = id]
         IN  UsageError(c) \/ AddRun(c, obj)
    /\ UNCHANGED codecVars

(***************************************************************************)
(* The search commands and the search service                              *)
(***************************************************************************)
IndexName == "schools"      \* --name default

\* The settings initialize sends.
Settings ==
    [searchableAttributes |-> <<"name", "abbreviations,alternatives">>,
     indexLanguages |-> <<"en">>,
     queryLanguages |-> <<"en">>,
     hitsPerPage |-> 5,
     paginationLimitedTo |-> 50]

Request(method, body) == [method |-> method, index |-> IndexName, body |-> body]

\* One dict of records: "id" renamed to "objectID", the list columns decoded.
SearchDocumentKeepsId(row) ==
    [id |-> row[1],
     name |-> row[2],
     abbreviations |-> DecodeField(row[3]).val,
     alternatives |-> DecodeField(row[4]).val]

SearchDocument(row) ==
    [objectID |-> row[1],
     name |-> row[2],
     abbreviations |-> DecodeField(row[3]).val,
     alternatives |-> DecodeField(row[4]).val]

RowDecodes(row) == DecodeField(row[3]).ok /\ DecodeField(row[4]).ok

\* .collect(): the whole frame is computed, or the first error is raised.
CollectsSome(df) == Len(df.rows) = 0 \/ \E i \in 1..Len(df.rows) : RowDecodes(df.rows[i])

Collects(df) == \A i \in 1..Len(df.rows) : RowDecodes(df.rows[i])

\* .to_dicts()
Records(df) == [i \in 1..Len(df.rows) |-> SearchDocument(df.rows[i])]

\* index.set_settings({...}): the call is made, .wait() is still to come
InitializeRun(c) ==
    /\ files[SourceOf(c)].exists
    /\ cmd' = c
    /\ requests' = Append(requests, Request("set_settings", Settings))
    /\ task' = "pending"
    /\ pc' = "waiting"
    /\ UNCHANGED <<files, stdout, status>>

Initialize ==
    /\ pc = "idle"
    /\ \E source \in SourceOptions :
         LET c == CommandLine("initialize", source, NotGiven)
         IN  UsageError(c) \/ InitializeRun(c)
    /\ UNCHANGED codecVars

\* seed: records = ...collect().to_dicts(), then index.save_objects(records)
SeedRun(c) ==
    /\ files[SourceOf(c)].exists
    /\ cmd' = c
    /\ LET obj == ScanCsv(files[SourceOf(c)].lines)
       IN  IF ~HasColumns(obj, <<ColId, ColAbbreviations, ColAlternatives>>)
           THEN /\ status' = "ColumnNotFoundError"
                /\ pc' = "exited"
                /\ UNCHANGED <<requests, task>>
           ELSE IF ~Collects(obj)
           THEN /\ status' = "DecodeError"
                /\ pc' = "exited"
                /\ UNCHANGED <<requests, task>>
           ELSE /\ requests' = Append(requests, Request("save_objects", Records(obj)))
                /\ task' = "pending"
                /\ pc' = "waiting"
                /\ UNCHANGED status
    /\ UNCHANGED <<files, stdout>>

Seed ==
    /\ pc = "idle"
    /\ \E source \in SourceOptions :
         LET c == CommandLine("seed", source, NotGiven)
         IN  UsageError(c) \/ SeedRun(c)
    /\ UNCHANGED codecVars

\* The service applies the call it was sent, or the call fails.
ServiceConfirm ==
    /\ task = "pending"
    /\ task' = "published"
    /\ UNCHANGED <<files, stdout, cmd, pc, status, requests>>
    /\ UNCHANGED codecVars

ServiceFail ==
    /\ task = "pending"
    /\ task' = "failed"
    /\ UNCHANGED <<files, stdout, cmd, pc, status, requests>>
    /\ UNCHANGED codecVars

\* .wait() returns once the task of the call is published.
WaitReturnsAtOnce(t) == t \in {"pending", "published"}

WaitReturns(t) == t = "published"

Wait ==
    /\ pc = "waiting"
    /\ WaitReturns(task)
    /\ pc' = "exited"
    /\ status' = "ok"
    /\ UNCHANGED <<files, stdout, cmd, requests, task>>
    /\ UNCHANGED codecVars

\* An error of the service is not caught: the command ends with it.
Raise ==
    /\ pc = "waiting"
    /\ task = "failed"
    /\ pc' = "exited"
    /\ status' = "ServiceError"
    /\ UNCHANGED <<files, stdout, cmd, requests, task>>
    /\ UNCHANGED codecVars

\* The process has ended; the next invocation starts afresh.
Prompt ==
    /\ pc = "exited"
    /\ pc' = "idle"
    /\ cmd' = NoCmd
    /\ status' = "none"
    /\ stdout' = <<>>
    /\ requests' = <<>>
    /\ task' = "none"
    /\ UNCHANGED files
    /\ UNCHANGED codecVars

InitCodecIdle ==
    /\ values = <<>>
    /\ field = NoField
    /\ decoded = NotDecoded

Init == InitCodecIdle /\ InitCli

Next ==
    \/ ForDatabase
    \/ Add
    \/ Initialize
    \/ Seed
    \/ ServiceConfirm
    \/ ServiceFail
    \/ Wait
    \/ Raise
    \/ Prompt

Spec == Init /\ [][Next]_vars

(***************************************************************************)
(* The search commands over stores that add did not write                  *)
(***************************************************************************)
MaxStoreRows == 2

UnbalancedRow ==
    << <<"2">>, <<"a">>, <<"{", "\"", "a", "\"">>, <<"{", "}">> >>
BraceRow ==
    << <<"3">>, <<"a">>, <<"{", "\"", "{", "\"", "}">>, <<"{", "\"", "a", "\"", ",", "\"", "a", "\"", "}">> >>
EscapeRow ==
    << <<"4">>, <<"a">>, <<"{", "}">>, <<"{", "\"", "\\", "\\", "\"", "}">> >>

SearchRows == {AcmeRow, UnbalancedRow, BraceRow, EscapeRow}

SearchStores ==
    UNION {{r \in [1..k -> SearchRows] : \A i, j \in 1..k : r[i] = r[j] => i = j}
             : k \in 0..MaxStoreRows}

InitSearch ==
    /\ InitCodecIdle
    /\ \E rows \in SearchStores :
         files = [p \in Paths |->
                    IF p = "schools.csv" THEN File(DataFrameWriteCsv(Frame(rows)))
                    ELSE NoFile]
    /\ stdout = <<>>
    /\ cmd = NoCmd
    /\ pc = "idle"
    /\ status = "none"
    /\ requests = <<>>
    /\ task = "none"

NextSearch ==
    \/ Initialize
    \/ Seed
    \/ ServiceConfirm
    \/ ServiceFail
    \/ Wait
    \/ Raise
    \/ Prompt

SpecSearch == InitSearch /\ [][NextSearch]_vars

(***************************************************************************)
(* The codec on its own: a list of values is drawn, add encodes it into a  *)
(* field, seed decodes the field; or the field is one found in a store.    *)
(***************************************************************************)

\* Fields as a store written by hand or by another tool may hold them.
StoredFields ==
    StringsUpTo(MaxLen + 1) \cup
    { <<"{", "}">>,
      <<"{", "\"", "a", "\"">>,
      <<"{", "\"", "a", "\"", "}">>,
      <<"{", "\"", "a", "\"", ",", "\"", "a", "\"", "}">>,
      <<"{", "\"", "a", "\"", "}", "}">>,
      <<"{", "{", "\"", "a", "\"", "}">> }

InitCodec ==
    /\ values \in ListsUpTo(MaxList, MaxLen)
    /\ field = NoField
    /\ decoded = NotDecoded
    /\ InitCli

\* add: "abbreviations": quote(abbreviations)
Encode ==
    /\ field.from = "none"
    /\ field' = [from |-> "quote", text |-> quote(values)]
    /\ UNCHANGED <<values, decoded>>
    /\ UNCHANGED cliVars

\* a field read from a store that add did not write
Load ==
    /\ field.from = "none"
    /\ values = <<>>
    /\ \E f \in StoredFields : field' = [from |-> "store", text |-> f]
    /\ UNCHANGED <<values, decoded>>
    /\ UNCHANGED cliVars

\* seed: .str.replace("\\{", "[").str.replace("\\}", "]").str.json_decode(...)
Decode ==
    /\ field.from # "none"
    /\ ~decoded.done
    /\ decoded' = [done |-> TRUE] @@ DecodeField(field.text)
    /\ UNCHANGED <<values, field>>
    /\ UNCHANGED cliVars

NextCodec == Encode \/ Load \/ Decode

SpecCodec == InitCodec /\ [][NextCodec]_vars

(***************************************************************************)
(* Properties of the codec (checked under SpecCodec)                       *)
(***************************************************************************)
HasChar(s, c) == \E i \in 1..Len(s) : s[i] = c
NoQuoteOrComma(vs) ==
    \A i \in 1..Len(vs) : ~HasChar(vs[i], "\"") /\ ~HasChar(vs[i], ",")

\* C1: for every list xs of strings without a double quote or a comma,
\* decoding the encoding of xs gives xs back, also when an element holds
\* a brace or a backslash.
RoundTrip ==
    (decoded.done /\ field.from = "quote" /\ NoQuoteOrComma(values))
        => (decoded.ok /\ decoded.val = values)

\* Position in the encoding of the opening quote of the i-th value.
RECURSIVE OpeningQuoteAt(_, _)
OpeningQuoteAt(vs, i) ==
    IF i = 1 THEN 2 ELSE OpeningQuoteAt(vs, i - 1) + Len(vs[i - 1]) + 3

EncodingShape(vs, t) ==
    LET n == Len(vs)
    IN  /\ t[1] = "{"
        /\ t[Len(t)] = "}"
        /\ Len(t) = IF n = 0 THEN 2 ELSE OpeningQuoteAt(vs, n) + Len(vs[n]) + 2
        /\ \A i \in 1..n :
             LET o == OpeningQuoteAt(vs, i)
             IN  /\ t[o] = "\""
                 /\ \A k \in 1..Len(vs[i]) : t[o + k] = vs[i][k]
                 /\ t[o + Len(vs[i]) + 1] = "\""
                 /\ i < n => t[o + Len(vs[i]) + 2] = ","

\* C8: the field add stores for a list of values is "{", each value in
\* order between double quotes with single commas between them, "}", no
\* character escaped; the empty list gives {} and {} decodes to the empty
\* list.
EncodingIsBracedQuotedList ==
    /\ field.from = "quote" =>
         /\ EncodingShape(values, field.text)
         /\ values = <<>> => field.text = <<"{", "}">>
    /\ (decoded.done /\ field.text = <<"{", "}">>) =>
         (decoded.ok /\ decoded.val = <<>>)

EncodedAndDecodedTwoValues ==
    /\ field.from = "quote"
    /\ Len(values) = 2
    /\ values[1] = <<"\"">> /\ values[2] = <<"a">>
    /\ decoded.done

(***************************************************************************)
(* Properties of the store commands (checked under Spec)                   *)
(***************************************************************************)
Rows(p) == ScanCsv(files[p].lines).rows

\* A step in which add ran to its end and wrote.
AddWrote == pc = "idle" /\ cmd'.name = "add" /\ status' = "ok"

\* In the properties below a value that is read more than once is bound by
\* a quantifier over a one-element set, so that it is computed once.

\* C2: the snapshot add writes has exactly one more row than the snapshot it
\* read; the old rows come first, in their order and unchanged, and the new
\* row is the last one.
AppendKeepsRows ==
    [][AddWrote =>
         \A old \in {ScanCsv(files[SourceOf(cmd')].lines).rows} :
         \A new \in {ScanCsv(IF AddOutput(cmd') = Stdout THEN stdout'
                             ELSE files'[AddOutput(cmd')].lines).rows} :
             /\ Len(new) = Len(old) + 1
             /\ \A i \in 1..Len(old) : new[i] = old[i]
             /\ new[Len(new)][1] = cmd'.id
             /\ new[Len(new)][2] = cmd'.school]_vars

AppendedToTwoRows ==
    /\ pc = "exited" /\ cmd.name = "add" /\ status = "ok"
    /\ cmd.output = "other.csv"
    /\ Len(Rows("other.csv")) = 2
    /\ Rows("other.csv")[1] = AcmeRow

\* C3: add with the empty string as name fails with a ValidationError and
\* leaves the store file and the output as they were.
EmptyNameRejected ==
    [][(pc = "idle" /\ cmd'.name = "add" /\ cmd'.school = <<>>
          /\ files[SourceOf(cmd')].exists)
         => (status' = "ValidationError" /\ files' = files /\ stdout' = stdout)]_vars

Distinct(seq) == \A i, j \in 1..Len(seq) : seq[i] = seq[j] => i = j

\* C4: in every store the ids of the rows are pairwise distinct, whatever
\* uuid4 returns.
IdsUnique ==
    \A p \in Paths :
        files[p].exists => Distinct(Column(ScanCsv(files[p].lines), ColId))

Quotes(v) == Cardinality({i \in 1..Len(v) : v[i] = "\""})

\* The line holds exactly the fields a and b, both between double quotes.
FullyQuotedPair(line, a, b) ==
    /\ ParseCsvLine(line) = <<a, b>>
    /\ line[1] = "\""
    /\ line[Len(line)] = "\""
    /\ Len(line) = Len(a) + Quotes(a) + Len(b) + Quotes(b) + 5

\* C6: for-database writes one line per row of the store, in the store's
\* order, holding that row's id and name and nothing else, every field
\* quoted; no row is dropped, rows with equal ids included.
ProjectionIsIdAndName ==
    [][(pc = "idle" /\ cmd'.name = "for_database" /\ status' = "ok") =>
         \A src \in {ScanCsv(files[SourceOf(cmd')].lines)} :
         \A text \in {IF cmd'.output = Stdout THEN stdout' ELSE files'[cmd'.output].lines} :
             /\ Len(text) = Len(src.rows) + 1
             /\ FullyQuotedPair(text[1], ColId, ColName)
             /\ \A i \in 1..Len(src.rows) :
                  \A id \in {src.rows[i][ColumnIndex(src, ColId)]} :
                  \A name \in {src.rows[i][ColumnIndex(src, ColName)]} :
                      FullyQuotedPair(text[i + 1], id, name)]_vars

ProjectedTwoRows ==
    /\ pc = "exited" /\ cmd.name = "for_database" /\ status = "ok"
    /\ cmd.output = Stdout
    /\ Len(stdout) = 3
    /\ Len(ScanCsv(files[SourceOf(cmd)].lines).columns) = 4
    /\ ~Distinct(Column(ScanCsv(files[SourceOf(cmd)].lines), ColId))

\* C10: a file changes only in a step of add or for-database, and the file
\* is the output path of that command; add without --output writes
\* schools.csv whatever --source is.
OnlyOutputWritten ==
    [][\A p \in Paths :
         files'[p] # files[p] =>
           /\ pc = "idle"
           /\ cmd'.name \in {"add", "for_database"}
           /\ p = IF cmd'.name = "add" /\ cmd'.output = NotGiven
                  THEN "schools.csv"
                  ELSE cmd'.output]_vars

AddFromOtherSourceWroteDefault ==
    /\ pc = "exited" /\ cmd.name = "add" /\ status = "ok"
    /\ cmd.source = "other.csv" /\ cmd.output = NotGiven
    /\ Len(Rows("schools.csv")) = Len(Rows("other.csv")) + 1

(***************************************************************************)
(* Properties of the search commands (checked under SpecSearch)            *)
(***************************************************************************)
SeedingStore == cmd.name = "seed" /\ files[SourceOf(cmd)].exists

\* C5: when a list field of any record does not decode, seed ends with a
\* DecodeError and nothing is sent to the index.
SeedAllOrNothing ==
    (SeedingStore /\ pc # "idle") =>
        LET rows == Rows(SourceOf(cmd))
        IN  (\E i \in 1..Len(rows) :
                \/ rows[i] = UnbalancedRow
                \/ ~DecodeField(rows[i][3]).ok
                \/ ~DecodeField(rows[i][4]).ok)
            => (requests = <<>> /\ pc = "exited" /\ status = "DecodeError")

SeedAbortedAfterGoodRow ==
    /\ SeedingStore /\ pc = "exited"
    /\ Rows(SourceOf(cmd)) = <<AcmeRow, UnbalancedRow>>

\* The rows of the search stores whose list fields are array literals.
WellFormed(rows) == \A i \in 1..Len(rows) : rows[i] \in {AcmeRow, BraceRow, EscapeRow}

HasBackslash(f) == \E k \in 1..Len(f) : f[k] = "\\"

\* C7: when every list field decodes, seed sends one document per record,
\* in record order: objectID is the id, name the name, the two lists the
\* decoded fields, and there is no id key.
SeedSendsOneDocumentPerRecord ==
    (SeedingStore /\ pc # "idle" /\ WellFormed(Rows(SourceOf(cmd)))) =>
        LET rows == Rows(SourceOf(cmd))
        IN  /\ Len(requests) = 1
            /\ requests[1].method = "save_objects"
            /\ Len(requests[1].body) = Len(rows)
            /\ \A i \in 1..Len(rows) :
                 LET doc == requests[1].body[i]
                 IN  /\ DOMAIN doc = {"objectID", "name", "abbreviations", "alternatives"}
                     /\ doc.objectID = rows[i][1]
                     /\ doc.name = rows[i][2]
                     /\ ~HasBackslash(rows[i][3]) => quote(doc.abbreviations) = rows[i][3]
                     /\ ~HasBackslash(rows[i][4]) => quote(doc.alternatives) = rows[i][4]
                     /\ rows[i] = AcmeRow =>
                          doc = [objectID |-> <<"1">>,
                                 name |-> <<"A", "c", "m", "e", " ", "S", "c", "h", "o", "o", "l">>,
                                 abbreviations |-> << <<"A", "S">> >>,
                                 alternatives |-> <<>>]
                     /\ rows[i] = EscapeRow =>
                          doc.alternatives = << <<"\\">> >>

SeedSentTwoDocuments ==
    /\ SeedingStore /\ pc = "exited" /\ status = "ok"
    /\ Rows(SourceOf(cmd)) = <<BraceRow, AcmeRow>>
    /\ Len(requests[1].body) = 2

\* C9: initialize and seed make their call to the service once and end
\* well only after the service has confirmed it; when the call fails the
\* command ends with the error and makes no second call.
SearchCommandsBlock ==
    /\ Len(requests) <= 1
    /\ (cmd.name \in {"initialize", "seed"} /\ pc = "exited" /\ status = "ok") =>
         /\ task = "published"
         /\ Len(requests) = 1
         /\ requests[1].method =
              (IF cmd.name = "initialize" THEN "set_settings" ELSE "save_objects")
    /\ task = "failed" =>
         /\ pc \in {"waiting", "exited"}
         /\ Len(requests) = 1
         /\ pc = "exited" => status = "ServiceError"

InitializeConfirmed ==
    /\ cmd.name = "initialize" /\ pc = "exited" /\ status = "ok"
    /\ requests = <<Request("set_settings", Settings)>>

====
